---- MODULE Spec2Model ----
(***************************************************************************)
(* proxperfect: a fan-out reverse proxy (src/proxperfect.go).              *)
(*                                                                         *)
(* The model follows the process from main(): ParseArguments,              *)
(* InitProxyState, registration of the one request handler, and then one   *)
(* goroutine per inbound request running either ProxyRequestHandler or     *)
(* RedirectHandler.  Library calls are modelled by what they do:           *)
(*   - atomic.AddUint32 adds 1 modulo 2^32 and returns the NEW value;      *)
(*   - semaphore.Weighted is a counter with a FIFO list of waiters;        *)
(*   - httputil.ReverseProxy.ServeHTTP either returns (response copied, or *)
(*     the error handler answered 502) or panics with http.ErrAbortHandler *)
(*     when copying the response body fails (backend aborts mid-body, or   *)
(*     the client is gone), which net/http recovers from per connection;   *)
(*   - http.Redirect writes the Location header and the status code, and   *)
(*     panics on a status code outside 100..999.                           *)
(***************************************************************************)
EXTENDS Integers, Sequences, FiniteSets, TLC

\* ------------------------------------------------------------------ bounds
MaxBackends == 3    \* most HTTP_SERVERS arguments tried
MaxReqs     == 3    \* inbound requests per run
MaxConns    == 2    \* largest -maxconns tried
MaxBufLen   == 3    \* longest byte buffer, and largest -bufsize, tried
MaxPooled   == 2    \* most buffers followed in the sync.Pool at once

\* ------------------------------------------------------- uint32 arithmetic
\* requestNum is a uint32.  A value v is kept as two 16-bit limbs <<hi, lo>>,
\* v = hi * 65536 + lo, so that the full 32-bit width is kept exactly.
Limb == 65536

Zero32 == <<0, 0>>
Max32  == <<Limb - 1, Limb - 1>>

\* v + 1 modulo 2^32
Inc32(v) ==
    IF v[2] = Limb - 1
    THEN <<(v[1] + 1) % Limb, 0>>
    ELSE <<v[1], v[2] + 1>>

\* v % n for a small positive n
\* (Mod32_NoReduce: the faulty variant that leaves out the last reduction)
Mod32_NoReduce(v, n) == ((v[1] % n) * (Limb % n)) + (v[2] % n)
Mod32(v, n) == (((v[1] % n) * (Limb % n)) + (v[2] % n)) % n

\* what atomic.AddUint32(&x, 1) returns when x held `old`: the new value
\* (AddUint32_ReturnsOld: the faulty reading, a fetch-and-add returning the
\* value before the addition)
AddUint32_ReturnsOld(old) == old
AddUint32(old) == Inc32(old)

\* --------------------------------------------------------------- inputs
Requests == 1 .. MaxReqs

\* HTTP_SERVERS arguments; "%" is a string url.Parse rejects
ServerName(i) == CASE i = 1 -> "http://b0"
                   [] i = 2 -> "http://b1"
                   [] i = 3 -> "http://b2"
                   [] OTHER -> "http://bx"
BadServer == "%"

GoodArgs(n) == [i \in 1 .. n |-> ServerName(i)]
ArgLists ==
    {GoodArgs(n) : n \in 0 .. MaxBackends}
    \cup {[GoodArgs(n) EXCEPT ![n] = BadServer] : n \in 1 .. MaxBackends}

ConnCaps      == {-1} \cup (0 .. MaxConns)
RedirectCodes == {0, 302, 7}

\* -bufsize: pooling off, and pooling on with buffers of MaxBufLen bytes
BufSizes == {0, MaxBufLen}

\* request targets: origin-form with a query, and absolute-form
RequestURLs ==
    { [scheme |-> "", host |-> "", path |-> "/p", rawQuery |-> "x=1"],
      [scheme |-> "http", host |-> "h", path |-> "/p", rawQuery |-> ""] }
NoURL == [scheme |-> "", host |-> "", path |-> "", rawQuery |-> ""]

\* lengths of the byte buffers handed to Put
BufLens == 0 .. MaxBufLen

\* a sync.Pool holding nothing: how many buffers of each length it holds
EmptyPool == [l \in BufLens |-> 0]

\* no buffer in the hands of a body copy
NoBuf == -1

\* ---------------------------------------------------------------- state
VARIABLES
    mainPc,        \* main(): "parse", "init", "register", "serving", "exited"
    config,        \* Config: proxyStrings, numConnsPerServer, redirectCode,
                   \* showVersion
    proxies,       \* proxyState.proxies: the target of each ReverseProxy
    connLimiters,  \* proxyState.connLimiters: [size, cur, waiters] each
    requestNum,    \* proxyState.requestNum (uint32)
    handler,       \* handler registered for "/": "none", "proxy", "redirect"
    pc,            \* position of each request's goroutine
    ticket,        \* currentRequestNum of each request
    proxyIdx,      \* proxyIdx of each request
    ready,         \* the request's semaphore waiter was granted its permit
    clientGone,    \* the request's client has disconnected
    status,        \* status code written to the client, 0 if none
    location,      \* Location header written to the client
    url,           \* r.URL as read by RedirectHandler
    outcome,       \* how the request's forward concluded, "none" before
    sequential,    \* no request has arrived while another was being handled
    written,       \* how many times a response was written to the client
    poolBufSize,   \* config.poolBufSize
    pool,          \* the sync.Pool of each proxy's BufferPool: buffers held, by
                   \* length; empty when no proxy has a BufferPool
    lastGet,       \* length of the buffer the last Get returned, -1 before
    foreign,       \* Put was given a buffer that no Get of the pool returned
    buf            \* length of the buffer the request's body copy got from Get

vars == <<mainPc, config, proxies, connLimiters, requestNum, handler,
          pc, ticket, proxyIdx, ready, clientGone, status, location, url,
          outcome, sequential, written, poolBufSize, pool, lastGet, foreign,
          buf>>

bufVars == <<pool, lastGet, foreign, buf>>
poolVars == <<poolBufSize, bufVars>>
startupVars == <<mainPc, config, proxies, handler, poolBufSize>>
reqVars == <<pc, ticket, proxyIdx, ready, clientGone, status, location, url,
             outcome, sequential, written>>

Init ==
    /\ mainPc = "parse"
    /\ config = [proxyStrings |-> <<>>, numConnsPerServer |-> 0, redirectCode |-> 0,
                 showVersion |-> FALSE]
    /\ proxies = <<>>
    /\ connLimiters = <<>>
    /\ requestNum = Zero32
    /\ handler = "none"
    /\ pc = [r \in Requests |-> "idle"]
    /\ ticket = [r \in Requests |-> Zero32]
    /\ proxyIdx = [r \in Requests |-> 0]
    /\ ready = [r \in Requests |-> FALSE]
    /\ clientGone = [r \in Requests |-> FALSE]
    /\ status = [r \in Requests |-> 0]
    /\ location = [r \in Requests |-> ""]
    /\ url = [r \in Requests |-> NoURL]
    /\ outcome = [r \in Requests |-> "none"]
    /\ sequential = TRUE
    /\ written = [r \in Requests |-> 0]
    /\ poolBufSize = 0
    /\ pool = <<>>
    /\ lastGet = -1
    /\ foreign = FALSE
    /\ buf = [r \in Requests |-> NoBuf]

\* -------------------------------------------------------------- startup
\* lines 97-144: the flags are read into config; with -version the process
\* prints its version and exits with status 0; with no server argument it
\* exits with status 1 (-verbose only prints, -port and -fdlimit do not
\* reach the handlers)
\* (ParseArguments_NoCheck: the faulty variant without the test of line 126)
ParseArguments_NoCheck ==
    /\ mainPc = "parse"
    /\ \E args \in ArgLists, conns \in ConnCaps, code \in RedirectCodes,
          size \in BufSizes, version \in BOOLEAN :
          /\ config' = [proxyStrings |-> args,
                        numConnsPerServer |-> conns,
                        redirectCode |-> code,
                        showVersion |-> version]
          /\ poolBufSize' = size
          /\ mainPc' = IF version THEN "exited" ELSE "init"
    /\ UNCHANGED <<proxies, connLimiters, requestNum, handler>>
    /\ UNCHANGED reqVars
    /\ UNCHANGED bufVars
ParseArguments ==
    /\ mainPc = "parse"
    /\ \E args \in ArgLists, conns \in ConnCaps, code \in RedirectCodes,
          size \in BufSizes, version \in BOOLEAN :
          /\ config' = [proxyStrings |-> args,
                        numConnsPerServer |-> conns,
                        redirectCode |-> code,
                        showVersion |-> version]
          /\ poolBufSize' = size
          /\ mainPc' = IF version \/ Len(args) = 0 THEN "exited" ELSE "init"
    /\ UNCHANGED <<proxies, connLimiters, requestNum, handler>>
    /\ UNCHANGED reqVars
    /\ UNCHANGED bufVars

\* url.Parse succeeds on the argument
Parses(s) == s # BadServer

NewWeighted(n) == [size |-> n, cur |-> 0, waiters |-> <<>>]

\* number of arguments the loop of InitProxyState gets through before NewProxy
\* fails (all of them when none fails)
RECURSIVE Added(_, _)
Added(args, i) ==
    IF i > Len(args) THEN Len(args)
    ELSE IF ~Parses(args[i]) THEN i - 1
    ELSE Added(args, i + 1)

\* whether the per-server limit is on: the test of lines 213, 230 and 246
\* (LimitEnabled_Always: the faulty variant that limits also with -maxconns 0)
LimitEnabled_Always == TRUE
LimitEnabled == config.numConnsPerServer # 0

\* whether the proxies get a BufferPool: the test of line 207
Pooling == poolBufSize > 0

InitProxyState ==
    /\ mainPc = "init"
    /\ requestNum' = Zero32
    /\ LET n == Added(config.proxyStrings, 1) IN
          /\ proxies' = [i \in 1 .. n |-> config.proxyStrings[i]]
          /\ connLimiters' =
                IF LimitEnabled
                THEN [i \in 1 .. n |-> NewWeighted(config.numConnsPerServer)]
                ELSE <<>>
          /\ pool' = IF Pooling THEN [i \in 1 .. n |-> EmptyPool] ELSE <<>>
          /\ mainPc' = IF n < Len(config.proxyStrings) THEN "exited" ELSE "register"
    /\ UNCHANGED <<config, handler>>
    /\ UNCHANGED reqVars
    /\ UNCHANGED <<poolBufSize, lastGet, foreign, buf>>

\* the handler main() registers
\* (RegisteredHandler_Swapped: the faulty variant with the test inverted)
RegisteredHandler_Swapped == IF config.redirectCode = 0 THEN "redirect" ELSE "proxy"
RegisteredHandler == IF config.redirectCode = 0 THEN "proxy" ELSE "redirect"

RegisterAndListen ==
    /\ mainPc = "register"
    /\ handler' = RegisteredHandler
    /\ mainPc' = "serving"
    /\ UNCHANGED <<config, proxies, connLimiters, requestNum>>
    /\ UNCHANGED reqVars
    /\ UNCHANGED poolVars

\* requests are numbered in their order of arrival
Arrives(r) ==
    /\ mainPc = "serving"
    /\ pc[r] = "idle"
    /\ \A q \in Requests : q < r => pc[q] # "idle"

\* the handler of no request other than r is running
Finished == {"done", "panicked", "redirected"}
NoneInHandler(r) ==
    \A q \in Requests \ {r} : pc[q] \in {"idle"} \cup Finished

\* ------------------------------------------------- semaphore.Weighted
\* Acquire(ctx, 1) takes a permit at once when one is free and nobody waits
CanAcquire(s) == s.size - s.cur >= 1 /\ s.waiters = <<>>

\* Acquire(ctx, 1) can never succeed: it blocks on ctx.Done(), which for
\* context.Background() never fires
Doomed(s) == 1 > s.size

\* notifyWaiters: hand free permits to the waiters at the front of the list
RECURSIVE NotifyWaiters(_)
NotifyWaiters(s) ==
    IF s.waiters = <<>> \/ s.size - s.cur < 1
    THEN s
    ELSE NotifyWaiters([s EXCEPT !.cur = @ + 1, !.waiters = Tail(@)])

\* Release(1)
\* (SemRelease_Twice: the faulty variant that gives back two permits)
SemRelease_Twice(s) == NotifyWaiters([s EXCEPT !.cur = @ - 2])
SemRelease(s) == NotifyWaiters([s EXCEPT !.cur = @ - 1])

\* the waiters a Release woke up
Woken(before, after) ==
    {before.waiters[k] : k \in 1 .. (Len(before.waiters) - Len(after.waiters))}

\* -------------------------------------------------------- proxyBufferPool
\* number of buffers in the pool of proxy p
RECURSIVE PooledUpTo(_, _)
PooledUpTo(p, l) == IF l < 0 THEN 0 ELSE pool[p][l] + PooledUpTo(p, l - 1)
Pooled(p) == PooledUpTo(p, MaxBufLen)

\* lines 60-73, Get: pool.Get() finds nothing (the pool is empty, or its
\* entries are out of this caller's reach) and a buffer of the configured
\* size is made, or it hands out one of the buffers put before, as it is
PoolGet(p) ==
    /\ \/ /\ lastGet' = poolBufSize
          /\ pool' = pool
       \/ \E l \in BufLens :
             /\ pool[p][l] > 0
             /\ pool' = [pool EXCEPT ![p][l] = @ - 1]
             /\ lastGet' = l
    /\ UNCHANGED foreign

\* lines 75-77, Put(buf): the buffer goes into the pool, whatever its length
PoolPut(p, l) ==
    /\ pool' = [pool EXCEPT ![p][l] = @ + 1]
    /\ foreign' = (foreign \/ l # poolBufSize)
    /\ UNCHANGED lastGet

\* line 47: the garbage collector drops an entry of the sync.Pool
PoolDrop(p, l) ==
    /\ pool[p][l] > 0
    /\ pool' = [pool EXCEPT ![p][l] = @ - 1]
    /\ UNCHANGED <<lastGet, foreign>>

\* line 240, in ServeHTTP: with a BufferPool (lines 207-209) the body copy
\* starts with buf = BufferPool.Get() and, however it ends, gives the buffer
\* back with the deferred BufferPool.Put(buf); without one it uses a buffer
\* of its own
CopyBegins(r) ==
    IF Pooling
    THEN /\ PoolGet(proxyIdx[r] + 1)
         /\ buf' = [buf EXCEPT ![r] = lastGet']
    ELSE UNCHANGED bufVars
CopyEnds(r) ==
    IF Pooling
    THEN /\ PoolPut(proxyIdx[r] + 1, buf[r])
         /\ buf' = [buf EXCEPT ![r] = NoBuf]
    ELSE UNCHANGED bufVars

\* line 47: the garbage collector at work while the process is serving
PoolCollect ==
    /\ mainPc = "serving"
    /\ \E p \in 1 .. Len(pool), l \in BufLens : PoolDrop(p, l)
    /\ UNCHANGED buf
    /\ UNCHANGED <<connLimiters, requestNum>>
    /\ UNCHANGED startupVars
    /\ UNCHANGED reqVars

\* ------------------------------------------------- ProxyRequestHandler
\* line 224: currentRequestNum = atomic.AddUint32(&proxyState.requestNum, 1)
ProxyTakeTicket(r) ==
    /\ handler = "proxy"
    /\ Arrives(r)
    /\ requestNum' = Inc32(requestNum)
    /\ ticket' = [ticket EXCEPT ![r] = AddUint32(requestNum)]
    /\ pc' = [pc EXCEPT ![r] = "ticketed"]
    /\ UNCHANGED <<connLimiters, proxyIdx, ready, clientGone, status, written, location,
                   url, outcome>>
    /\ UNCHANGED startupVars
    /\ UNCHANGED bufVars
    /\ sequential' = (sequential /\ NoneInHandler(r))

\* the value the handler derives its index from: its own ticket
\* (CurrentRequestNum_Reread: the faulty variant reading the shared counter)
CurrentRequestNum_Reread(r) == requestNum
CurrentRequestNum(r) == ticket[r]

\* lines 225-226: proxyIdx = currentRequestNum % len(proxies)
ProxySelect(r) ==
    /\ pc[r] = "ticketed"
    /\ proxyIdx' = [proxyIdx EXCEPT ![r] = Mod32(CurrentRequestNum(r), Len(proxies))]
    /\ pc' = [pc EXCEPT ![r] = "selected"]
    /\ UNCHANGED <<connLimiters, requestNum, ticket, ready, clientGone, status, written,
                   location, url, outcome>>
    /\ UNCHANGED startupVars
    /\ UNCHANGED bufVars
    /\ UNCHANGED sequential

\* lines 230-234 with the limit on: limiter.Acquire(ctx, 1)
\* (ProxyAcquire_NoLimit: the faulty variant that goes on without a permit)
ProxyAcquire_NoLimit(r) ==
    /\ pc[r] = "selected"
    /\ LimitEnabled
    /\ pc' = [pc EXCEPT ![r] = "roundtrip"]
    /\ UNCHANGED <<connLimiters, requestNum, ticket, proxyIdx, ready, clientGone,
                   status, written, location, url, outcome>>
    /\ UNCHANGED startupVars
    /\ UNCHANGED bufVars
    /\ UNCHANGED sequential
ProxyAcquire(r) ==
    /\ pc[r] = "selected"
    /\ LimitEnabled
    /\ LET i == proxyIdx[r] + 1
           s == connLimiters[i]
       IN  IF CanAcquire(s)
           THEN /\ connLimiters' = [connLimiters EXCEPT ![i].cur = @ + 1]
                /\ pc' = [pc EXCEPT ![r] = "roundtrip"]
           ELSE IF Doomed(s)
           THEN /\ connLimiters' = connLimiters
                /\ pc' = [pc EXCEPT ![r] = "acquiring"]
           ELSE /\ connLimiters' = [connLimiters EXCEPT ![i].waiters = Append(@, r)]
                /\ pc' = [pc EXCEPT ![r] = "acquiring"]
    /\ UNCHANGED <<requestNum, ticket, proxyIdx, ready, clientGone, status, written,
                   location, url, outcome>>
    /\ UNCHANGED startupVars
    /\ UNCHANGED bufVars
    /\ UNCHANGED sequential

\* lines 230-234 with the limit off: straight on to proxy.ServeHTTP
ProxySkipLimit(r) ==
    /\ pc[r] = "selected"
    /\ ~LimitEnabled
    /\ pc' = [pc EXCEPT ![r] = "roundtrip"]
    /\ UNCHANGED <<connLimiters, requestNum, ticket, proxyIdx, ready, clientGone,
                   status, written, location, url, outcome>>
    /\ UNCHANGED startupVars
    /\ UNCHANGED bufVars
    /\ UNCHANGED sequential

\* line 233: a blocked Acquire returns once a Release handed it the permit
\* (AcquireReturn_Spurious: the faulty variant that returns without one)
AcquireReturn_Spurious(r) ==
    /\ pc[r] = "acquiring"
    /\ pc' = [pc EXCEPT ![r] = "roundtrip"]
    /\ UNCHANGED <<connLimiters, requestNum, ticket, proxyIdx, ready, clientGone,
                   status, written, location, url, outcome>>
    /\ UNCHANGED startupVars
    /\ UNCHANGED bufVars
    /\ UNCHANGED sequential
AcquireReturn(r) ==
    /\ pc[r] = "acquiring"
    /\ ready[r]
    /\ pc' = [pc EXCEPT ![r] = "roundtrip"]
    /\ UNCHANGED <<connLimiters, requestNum, ticket, proxyIdx, ready, clientGone,
                   status, written, location, url, outcome>>
    /\ UNCHANGED startupVars
    /\ UNCHANGED bufVars
    /\ UNCHANGED sequential

\* line 240, proxy.ServeHTTP: the backend answers, the response header goes
\* to the client and the body copy begins
BackendResponds(r) ==
    /\ pc[r] = "roundtrip"
    /\ status' = [status EXCEPT ![r] = 200]
    /\ written' = [written EXCEPT ![r] = @ + 1]
    /\ pc' = [pc EXCEPT ![r] = "copying"]
    /\ UNCHANGED <<connLimiters, requestNum, ticket, proxyIdx, ready, clientGone,
                   location, url, outcome>>
    /\ UNCHANGED startupVars
    /\ CopyBegins(r)
    /\ UNCHANGED sequential

\* line 240: the backend cannot be reached; the error handler answers 502 and
\* ServeHTTP returns
\* (BackendError_Retry: the faulty variant that takes a new ticket and tries
\* the next backend)
BackendError_Retry(r) ==
    /\ pc[r] = "roundtrip"
    /\ requestNum' = Inc32(requestNum)
    /\ ticket' = [ticket EXCEPT ![r] = AddUint32(requestNum)]
    /\ pc' = [pc EXCEPT ![r] = "ticketed"]
    /\ UNCHANGED <<connLimiters, proxyIdx, ready, clientGone, status, written, location,
                   url, outcome>>
    /\ UNCHANGED startupVars
    /\ UNCHANGED bufVars
    /\ sequential' = (sequential /\ NoneInHandler(r))
BackendError(r) ==
    /\ pc[r] = "roundtrip"
    /\ status' = [status EXCEPT ![r] = 502]
    /\ written' = [written EXCEPT ![r] = @ + 1]
    /\ outcome' = [outcome EXCEPT ![r] = "failed"]
    /\ pc' = [pc EXCEPT ![r] = "served"]
    /\ UNCHANGED <<connLimiters, requestNum, ticket, proxyIdx, ready, clientGone,
                   location, url>>
    /\ UNCHANGED startupVars
    /\ UNCHANGED bufVars
    /\ UNCHANGED sequential

\* line 240: the client is gone before the backend answered; the round trip
\* ends with the request context's error, the error handler runs and
\* ServeHTTP returns
RoundTripCanceled(r) ==
    /\ pc[r] = "roundtrip"
    /\ clientGone[r]
    /\ status' = [status EXCEPT ![r] = 502]
    /\ written' = [written EXCEPT ![r] = @ + 1]
    /\ outcome' = [outcome EXCEPT ![r] = "cancelled"]
    /\ pc' = [pc EXCEPT ![r] = "served"]
    /\ UNCHANGED <<connLimiters, requestNum, ticket, proxyIdx, ready, clientGone,
                   location, url>>
    /\ UNCHANGED startupVars
    /\ UNCHANGED bufVars
    /\ UNCHANGED sequential

\* line 240: the body copy reaches the end of the response; ServeHTTP returns
CopyDone(r) ==
    /\ pc[r] = "copying"
    /\ outcome' = [outcome EXCEPT ![r] = "completed"]
    /\ pc' = [pc EXCEPT ![r] = "served"]
    /\ UNCHANGED <<connLimiters, requestNum, ticket, proxyIdx, ready, clientGone,
                   status, written, location, url>>
    /\ UNCHANGED startupVars
    /\ CopyEnds(r)
    /\ UNCHANGED sequential

\* line 240: reading the body from the backend fails; ServeHTTP panics with
\* http.ErrAbortHandler and the handler is unwound
CopyBackendAbort(r) ==
    /\ pc[r] = "copying"
    /\ outcome' = [outcome EXCEPT ![r] = "failed"]
    /\ pc' = [pc EXCEPT ![r] = "panicked"]
    /\ UNCHANGED <<connLimiters, requestNum, ticket, proxyIdx, ready, clientGone,
                   status, written, location, url>>
    /\ UNCHANGED startupVars
    /\ CopyEnds(r)
    /\ UNCHANGED sequential

\* line 240: the client is gone while the body is copied; the copy fails,
\* ServeHTTP panics with http.ErrAbortHandler and the handler is unwound
CopyClientGone(r) ==
    /\ pc[r] = "copying"
    /\ clientGone[r]
    /\ outcome' = [outcome EXCEPT ![r] = "cancelled"]
    /\ pc' = [pc EXCEPT ![r] = "panicked"]
    /\ UNCHANGED <<connLimiters, requestNum, ticket, proxyIdx, ready, clientGone,
                   status, written, location, url>>
    /\ UNCHANGED startupVars
    /\ CopyEnds(r)
    /\ UNCHANGED sequential

\* lines 246-248: limiter.Release(1) when the limit is on
ProxyRelease(r) ==
    /\ pc[r] = "served"
    /\ IF LimitEnabled
       THEN LET i == proxyIdx[r] + 1
                s == SemRelease(connLimiters[i])
            IN  /\ connLimiters' = [connLimiters EXCEPT ![i] = s]
                /\ ready' = [q \in Requests |->
                               ready[q] \/ q \in Woken(connLimiters[i], s)]
       ELSE UNCHANGED <<connLimiters, ready>>
    /\ pc' = [pc EXCEPT ![r] = "done"]
    /\ UNCHANGED <<requestNum, ticket, proxyIdx, clientGone, status, written, location,
                   url, outcome>>
    /\ UNCHANGED startupVars
    /\ UNCHANGED bufVars
    /\ UNCHANGED sequential

\* the client of a request the handler is waiting or forwarding for goes away
\* (a disconnect before the forward starts is seen only once it has started)
\* (ClientDisconnect_AbortsWait: the faulty variant in which the wait in
\* Acquire is bound to the request's context and ends with the client)
ClientDisconnect_AbortsWait(r) ==
    /\ pc[r] \in {"acquiring", "roundtrip", "copying"}
    /\ ~clientGone[r]
    /\ clientGone' = [clientGone EXCEPT ![r] = TRUE]
    /\ pc' = [pc EXCEPT ![r] = IF pc[r] = "acquiring" THEN "done" ELSE @]
    /\ UNCHANGED <<connLimiters, requestNum, ticket, proxyIdx, ready, status, written,
                   location, url, outcome>>
    /\ UNCHANGED startupVars
    /\ UNCHANGED bufVars
    /\ UNCHANGED sequential
ClientDisconnect(r) ==
    /\ pc[r] \in {"acquiring", "roundtrip", "copying"}
    /\ ~clientGone[r]
    /\ clientGone' = [clientGone EXCEPT ![r] = TRUE]
    /\ UNCHANGED <<connLimiters, requestNum, pc, ticket, proxyIdx, ready, status, written,
                   location, url, outcome>>
    /\ UNCHANGED startupVars
    /\ UNCHANGED bufVars
    /\ UNCHANGED sequential

ProxyRequestHandler(r) ==
    \/ ProxyTakeTicket(r)
    \/ ProxySelect(r)
    \/ ProxyAcquire(r)
    \/ ProxySkipLimit(r)
    \/ AcquireReturn(r)
    \/ BackendResponds(r)
    \/ BackendError(r)
    \/ RoundTripCanceled(r)
    \/ CopyDone(r)
    \/ CopyBackendAbort(r)
    \/ CopyClientGone(r)
    \/ ProxyRelease(r)

\* ------------------------------------------------------ RedirectHandler
\* url.URL.String() of a request target
URLString(u) ==
    (IF u.scheme # "" THEN u.scheme \o ":" ELSE "")
    \o (IF u.scheme # "" \/ u.host # "" THEN "//" \o u.host ELSE "")
    \o u.path
    \o (IF u.rawQuery # "" THEN "?" \o u.rawQuery ELSE "")

\* http.Redirect panics in WriteHeader on a code outside 100..999
ValidStatus(code) == code >= 100 /\ code <= 999

\* line 254
RedirectTakeTicket(r) ==
    /\ handler = "redirect"
    /\ Arrives(r)
    /\ requestNum' = Inc32(requestNum)
    /\ ticket' = [ticket EXCEPT ![r] = AddUint32(requestNum)]
    /\ pc' = [pc EXCEPT ![r] = "rticketed"]
    /\ UNCHANGED <<connLimiters, proxyIdx, ready, clientGone, status, written, location,
                   url, outcome>>
    /\ UNCHANGED startupVars
    /\ UNCHANGED bufVars
    /\ sequential' = (sequential /\ NoneInHandler(r))

\* line 255
RedirectSelect(r) ==
    /\ pc[r] = "rticketed"
    /\ proxyIdx' = [proxyIdx EXCEPT ![r] = Mod32(CurrentRequestNum(r), Len(proxies))]
    /\ pc' = [pc EXCEPT ![r] = "rselected"]
    /\ UNCHANGED <<connLimiters, requestNum, ticket, ready, clientGone, status, written,
                   location, url, outcome>>
    /\ UNCHANGED startupVars
    /\ UNCHANGED bufVars
    /\ UNCHANGED sequential

\* line 256: serverStr = config.proxyStrings[proxyIdx] + r.URL.String()
ServerStr(i, u) == config.proxyStrings[i + 1] \o URLString(u)

\* lines 256-262: http.Redirect(w, r, serverStr, config.redirectCode)
RedirectRespond(r) ==
    /\ pc[r] = "rselected"
    /\ \E u \in RequestURLs :
          /\ url' = [url EXCEPT ![r] = u]
          /\ IF ValidStatus(config.redirectCode)
             THEN /\ location' = [location EXCEPT ![r] = ServerStr(proxyIdx[r], u)]
                  /\ status' = [status EXCEPT ![r] = config.redirectCode]
                  /\ written' = [written EXCEPT ![r] = @ + 1]
                  /\ pc' = [pc EXCEPT ![r] = "redirected"]
             ELSE /\ UNCHANGED <<location, status, written>>
                  /\ pc' = [pc EXCEPT ![r] = "panicked"]
    /\ UNCHANGED <<connLimiters, requestNum, ticket, proxyIdx, ready, clientGone,
                   outcome>>
    /\ UNCHANGED startupVars
    /\ UNCHANGED bufVars
    /\ UNCHANGED sequential

RedirectHandler(r) ==
    \/ RedirectTakeTicket(r)
    \/ RedirectSelect(r)
    \/ RedirectRespond(r)

\* ------------------------------------------------------------------ main
Next ==
    \/ ParseArguments
    \/ InitProxyState
    \/ RegisterAndListen
    \/ \E r \in Requests : ProxyRequestHandler(r)
    \/ \E r \in Requests : RedirectHandler(r)
    \/ \E r \in Requests : ClientDisconnect(r)
    \/ PoolCollect

Spec == Init /\ [][Next]_vars

\* ------------------------------------------------- a long-running process
\* The counter after a long run of requests that were all handled to the end
\* before the requests followed here arrive: values from which the next
\* increments carry into the high limb or wrap to 0.
StartTickets == {<<0, Limb - 1>>, <<Limb - 1, Limb - 2>>, Max32}

EarlierTraffic ==
    /\ mainPc = "serving"
    /\ requestNum = Zero32
    /\ \A r \in Requests : pc[r] = "idle"
    /\ requestNum' \in StartTickets
    /\ UNCHANGED <<connLimiters>>
    /\ UNCHANGED startupVars
    /\ UNCHANGED bufVars
    /\ UNCHANGED reqVars

NextLong == Next \/ EarlierTraffic
SpecLong == Init /\ [][NextLong]_vars

\* ------------------------------------------------------------ scheduling
\* Every goroutine that can take a step of its own eventually takes it; a
\* forward whose client is gone is ended by the request context.  Backends
\* and clients owe nothing: a backend may never answer.
OwnStep(r) ==
    \/ ProxySelect(r)
    \/ ProxyAcquire(r)
    \/ ProxySkipLimit(r)
    \/ AcquireReturn(r)
    \/ RoundTripCanceled(r)
    \/ CopyClientGone(r)
    \/ ProxyRelease(r)
    \/ RedirectSelect(r)
    \/ RedirectRespond(r)

FairSpec == Spec /\ \A r \in Requests : WF_vars(OwnStep(r))

\* The same with well-behaved backends: every round trip ends (with a
\* response or an error) and every body copy ends.
Concludes(r) ==
    \/ BackendResponds(r)
    \/ BackendError(r)
    \/ CopyDone(r)
    \/ CopyBackendAbort(r)

FairSpecConcluding == FairSpec /\ \A r \in Requests : WF_vars(Concludes(r))


\* -------------------------------------------------------- proxyBufferPool
\* One proxyBufferPool on its own, from NewProxyBufferPool() on, with any
\* caller of Get and Put; the rest of the state stays as at start.
InitPool ==
    /\ mainPc = "parse"
    /\ config = [proxyStrings |-> <<>>, numConnsPerServer |-> 0, redirectCode |-> 0,
                 showVersion |-> FALSE]
    /\ proxies = <<>>
    /\ connLimiters = <<>>
    /\ requestNum = Zero32
    /\ handler = "none"
    /\ pc = [r \in Requests |-> "idle"]
    /\ ticket = [r \in Requests |-> Zero32]
    /\ proxyIdx = [r \in Requests |-> 0]
    /\ ready = [r \in Requests |-> FALSE]
    /\ clientGone = [r \in Requests |-> FALSE]
    /\ status = [r \in Requests |-> 0]
    /\ location = [r \in Requests |-> ""]
    /\ url = [r \in Requests |-> NoURL]
    /\ outcome = [r \in Requests |-> "none"]
    /\ sequential = TRUE
    /\ written = [r \in Requests |-> 0]
    /\ poolBufSize \in 1 .. MaxBufLen
    /\ pool = <<EmptyPool>>
    /\ lastGet = -1
    /\ foreign = FALSE
    /\ buf = [r \in Requests |-> NoBuf]

\* a caller's step leaves everything but the pool as it is
PoolFrame ==
    /\ UNCHANGED <<mainPc, config, proxies, connLimiters, requestNum, handler>>
    /\ UNCHANGED reqVars
    /\ UNCHANGED <<poolBufSize, buf>>

NextPool ==
    \/ PoolGet(1) /\ PoolFrame
    \/ \E l \in BufLens : Pooled(1) < MaxPooled /\ PoolPut(1, l) /\ PoolFrame
    \/ \E l \in BufLens : PoolDrop(1, l) /\ PoolFrame

SpecPool == InitPool /\ [][NextPool]_vars

\* ------------------------------------------------------- claim vocabulary
N   == Len(proxies)
Cap == config.numConnsPerServer
Backends == 0 .. (N - 1)

ProxyMode    == handler = "proxy"
RedirectMode == handler = "redirect"

\* the request has computed its backend index
Selected(r) == pc[r] \notin {"idle", "ticketed", "rticketed"}

\* the request is inside proxy.ServeHTTP
Forwarding(r) == pc[r] \in {"roundtrip", "copying"}

\* the request is between Acquire returning and Release
InForward(r) == pc[r] \in {"roundtrip", "copying", "served"}

\* the requests between Acquire and Release on backend i
Holders(i) == {r \in Requests : InForward(r) /\ proxyIdx[r] = i}

\* the requests blocked in Acquire on backend i, woken or not
Pending(i) == {r \in Requests : pc[r] = "acquiring" /\ proxyIdx[r] = i}

\* ----------------------------------------------------------------- C1
\* C1: in proxy mode with a per-backend cap C > 0, for every backend the
\* number of requests between Acquire returning and Release is at most C.
C1_AtMostCapForwards ==
    (ProxyMode /\ Cap > 0) =>
        \A i \in Backends : Cardinality(Holders(i)) <= Cap

\* a backend is saturated while a further request for it waits
C1_Witness ==
    /\ ProxyMode
    /\ Cap > 0
    /\ \E i \in Backends :
          /\ Cardinality(Holders(i)) = Cap
          /\ \E w \in Pending(i) : ~ready[w]

\* ----------------------------------------------------------------- C2
\* C2: permits never leak: with a cap C > 0, whenever no request is between
\* Acquire and Release on backend i (and none was handed a permit it has yet
\* to pick up), all C permits of backend i are available.
C2_PermitsNeverLeak ==
    (ProxyMode /\ Cap > 0) =>
        \A i \in Backends :
            (Holders(i) = {} /\ Pending(i) = {}) => connLimiters[i + 1].cur = 0

\* ----------------------------------------------------------------- C3
\* C3: when the client of a forward on a saturated backend disconnects
\* mid-forward while a request waits first in line for that backend, the
\* waiting request is eventually admitted.
C3_DisconnectAdmitsWaiter ==
    \A r \in Requests : \A w \in Requests :
        ( /\ ProxyMode
          /\ Cap > 0
          /\ Forwarding(r)
          /\ clientGone[r]
          /\ pc[w] = "acquiring"
          /\ proxyIdx[w] = proxyIdx[r]
          /\ connLimiters[proxyIdx[r] + 1].waiters # <<>>
          /\ Head(connLimiters[proxyIdx[r] + 1].waiters) = w )
        ~> (pc[w] # "acquiring")

\* ----------------------------------------------------------------- C4
\* C4 (as stated): from a fresh start, requests handled one after another,
\* the k-th request goes to backend (k-1) mod N: the first to backend 0.
C4_FirstToBackendZero ==
    (sequential /\ mainPc = "serving") =>
        \A r \in Requests : Selected(r) => proxyIdx[r] = (r - 1) % N

\* C4 (amended): from a fresh start, requests handled one after another, the
\* k-th request goes to backend k mod N: the first to backend 1 mod N.
C4_KthToKModN ==
    (sequential /\ mainPc = "serving") =>
        \A r \in Requests : Selected(r) => proxyIdx[r] = r % N

\* three requests over two backends, one after another: B1, B0, B1
C4_Witness ==
    /\ sequential
    /\ N = 2
    /\ \A r \in 1 .. 3 : Selected(r)
    /\ pc[1] \in Finished /\ pc[2] \in Finished
    /\ proxyIdx[1] = 1 /\ proxyIdx[2] = 0 /\ proxyIdx[3] = 1

\* ----------------------------------------------------------------- C5
\* C5: for requests handled one after another the selected index advances
\* by exactly one modulo N from each request to the next, from any value of
\* the counter, also across its wrap to 0.
C5_AdvancesByOne ==
    (sequential /\ mainPc = "serving") =>
        \A r \in Requests :
            (r + 1 \in Requests /\ Selected(r) /\ Selected(r + 1)) =>
                proxyIdx[r + 1] = (proxyIdx[r] + 1) % N

\* ----------------------------------------------------------------- C6
\* C6: once K requests, handled in any interleaving, have all selected, each
\* backend was selected by floor(K/N) or ceil(K/N) of them.
Arrived == {r \in Requests : pc[r] # "idle"}
SelectedBy(i) == {r \in Arrived : proxyIdx[r] = i}
C6_EvenShares ==
    (mainPc = "serving" /\ \A r \in Arrived : Selected(r)) =>
        LET K == Cardinality(Arrived) IN
        \A i \in Backends :
            /\ Cardinality(SelectedBy(i)) >= K \div N
            /\ Cardinality(SelectedBy(i)) <= (K + N - 1) \div N

\* the parts of C6 the counter's wrap does not touch: the requests that
\* arrived hold pairwise distinct tickets, the tickets are the consecutive
\* counter values up to the counter's present value, and every selected
\* request is at the index of its own ticket
RECURSIVE Back32(_, _)
Back32(v, k) == IF k = 0 THEN v
                ELSE Back32(IF v[2] = 0 THEN <<(v[1] + Limb - 1) % Limb, Limb - 1>>
                                        ELSE <<v[1], v[2] - 1>>, k - 1)
C6_OwnConsecutiveTickets ==
    mainPc = "serving" =>
        /\ \A r \in Arrived : \A q \in Arrived : r # q => ticket[r] # ticket[q]
        /\ {ticket[r] : r \in Arrived} =
              {Back32(requestNum, k) : k \in 0 .. (Cardinality(Arrived) - 1)}
        /\ \A r \in Arrived : Selected(r) => proxyIdx[r] = Mod32(ticket[r], N)

\* ----------------------------------------------------------------- C7
\* C7: with cap 0 no limiter exists, no request is ever blocked in Acquire,
\* and a request that has selected can always go on to its forward, whatever
\* the other requests are doing.
C7_UnlimitedNeverWaits ==
    (ProxyMode /\ Cap = 0) =>
        /\ connLimiters = <<>>
        /\ \A r \in Requests :
              /\ pc[r] # "acquiring"
              /\ ~ready[r]
              /\ pc[r] = "selected" => ENABLED ProxySkipLimit(r)

\* one backend, no cap: all requests are forwarding at once
C7_Witness ==
    /\ ProxyMode
    /\ Cap = 0
    /\ N = 1
    /\ \A r \in Requests : Forwarding(r)

\* ----------------------------------------------------------------- C8
\* C8: a request takes one ticket and is bound to the backend at that
\* ticket's index: a failing forward ends the request without a new ticket,
\* a new selection or a new forward and leaves the counter and the backend
\* list alone; every selected request, before or after failures on its
\* backend, is at index ticket mod N.
C8_Step ==
    \A r \in Requests :
        /\ pc[r] # "idle" => ticket'[r] = ticket[r]
        /\ Selected(r) => proxyIdx'[r] = proxyIdx[r]
        /\ (outcome[r] # "failed" /\ outcome'[r] = "failed") =>
              /\ Forwarding(r)
              /\ pc'[r] \in {"served", "panicked"}
              /\ requestNum' = requestNum
              /\ proxies' = proxies
        /\ outcome[r] = "failed" =>
              /\ outcome'[r] = "failed"
              /\ pc'[r] \in {"served", "done", "panicked"}
C8_BoundToOneBackend ==
    /\ [](ProxyMode => \A r \in Requests :
              Selected(r) => proxyIdx[r] = Mod32(ticket[r], N))
    /\ [][C8_Step]_vars

\* the first request failed on its backend and a later request with a ticket
\* congruent to it is forwarded to the same backend
C8_Witness ==
    /\ ProxyMode
    /\ N >= 2
    /\ outcome[1] = "failed"
    /\ pc[1] \in Finished
    /\ \E r \in Requests \ {1} : Forwarding(r) /\ proxyIdx[r] = proxyIdx[1]

\* ----------------------------------------------------------------- C9
\* C9: a redirected request was answered with the configured status code and
\* with the selected backend's base URI followed by the request's path and
\* query, and no permit was taken.
PathAndQuery(u) ==
    u.path \o (IF u.rawQuery # "" THEN "?" \o u.rawQuery ELSE "")
C9_RedirectTarget ==
    RedirectMode =>
        /\ \A r \in Requests :
              pc[r] = "redirected" =>
                 /\ status[r] = config.redirectCode
                 /\ location[r] =
                       config.proxyStrings[proxyIdx[r] + 1] \o PathAndQuery(url[r])
        /\ \A i \in 1 .. Len(connLimiters) :
              connLimiters[i].cur = 0 /\ connLimiters[i].waiters = <<>>

\* the part of C9 that is about permits and forwarding alone: in redirect
\* mode no limiter is ever touched and no request enters the proxy handler
C9_PermitsUntouched ==
    RedirectMode =>
        /\ \A i \in 1 .. Len(connLimiters) :
              connLimiters[i].cur = 0 /\ connLimiters[i].waiters = <<>>
        /\ \A r \in Requests :
              pc[r] \in {"idle", "rticketed", "rselected", "redirected", "panicked"}

\* ---------------------------------------------------------------- C10
\* C10: the handler registered at startup never changes; redirect code 0
\* means proxy mode and any other code redirect mode; requests are handled
\* only once a handler is registered, by that engine alone.
ProxyPcs    == {"ticketed", "selected", "acquiring", "roundtrip", "copying",
                "served", "done"}
RedirectPcs == {"rticketed", "rselected", "redirected"}
C10_ModeFixedAtStartup ==
    /\ [](handler = "proxy" =>
            /\ config.redirectCode = 0
            /\ \A r \in Requests : pc[r] \notin RedirectPcs)
    /\ [](handler = "redirect" =>
            /\ config.redirectCode # 0
            /\ \A r \in Requests : pc[r] \notin ProxyPcs)
    /\ [](handler = "none" => \A r \in Requests : pc[r] = "idle")
    /\ [][handler # "none" => handler' = handler]_vars

\* a nonzero code with a cap configured: a request was redirected
C10_Witness ==
    /\ config.redirectCode # 0
    /\ Cap > 0
    /\ \E r \in Requests : pc[r] = "redirected"

\* ---------------------------------------------------------------- C11
\* C11: with no backend configured the process exits in ParseArguments:
\* the engine state stays uninitialised, no handler is registered and no
\* request is handled; so whenever the engine is initialised, a handler is
\* registered or a request is being handled, there is at least one backend
\* argument, and every request that is being handled finds N >= 1.
C11_NoBackendsNoService ==
    /\ (mainPc # "parse" /\ Len(config.proxyStrings) = 0) =>
          /\ mainPc = "exited"
          /\ proxies = <<>> /\ connLimiters = <<>>
          /\ handler = "none"
          /\ \A r \in Requests : pc[r] = "idle"
    /\ \A r \in Requests : pc[r] # "idle" => (N >= 1 /\ handler # "none")

\* startup has failed on an empty server list
C11_Witness ==
    /\ mainPc = "exited"
    /\ ~config.showVersion
    /\ Len(config.proxyStrings) = 0
    /\ handler = "none"

\* ---------------------------------------------------------------- C12
\* C12: with a configured size S > 0, after any Gets and Puts (Put given
\* buffers of any length) every buffer Get returns is at least S long.
C12_GetAtLeastSize ==
    (poolBufSize > 0 /\ lastGet # -1) => lastGet >= poolBufSize

\* what holds instead: as long as Put was given only buffers of the
\* configured length (as by a caller that puts back what it got), every
\* buffer Get returns has exactly the configured length
C12_OwnBuffersOnly ==
    (poolBufSize > 0 /\ ~foreign /\ lastGet # -1) => lastGet = poolBufSize

\* ---------------------------------------------------------------- C13
\* C13: no request is answered twice, and every request the proxy handler
\* has taken on, with a cap C > 0 configured, is eventually answered once,
\* also when its backend's permits are all taken at the time.
C13_ExactlyOneResponse ==
    /\ [](\A r \in Requests : written[r] <= 1)
    /\ \A r \in Requests :
          (ProxyMode /\ Cap > 0 /\ pc[r] # "idle") ~> (written[r] = 1)

\* the part of C13 that holds: no request is answered twice, and a request
\* whose handler returned was answered exactly once
C13_AtMostOneResponse ==
    \A r \in Requests :
        /\ written[r] <= 1
        /\ pc[r] \in {"served", "done", "redirected"} => written[r] = 1


\* ---------------------------------------------------------------- C14
\* C14: in proxy mode with a cap C > 0 a request moves selected ->
\* (blocked in Acquire ->) forwarding -> ended, in that order and never
\* back; the permits taken from each backend's limiter are exactly one per
\* request of that backend that is past Acquire and has not released (so a
\* forwarding request holds one permit, of its own backend, and none of
\* another); a request whose forward has concluded never waits or forwards
\* again.
HoldsPermit(r, i) ==
    /\ proxyIdx[r] = i
    /\ \/ InForward(r)
       \/ pc[r] = "acquiring" /\ ready[r]
       \/ pc[r] = "panicked"
C14_Order ==
    \A r \in Requests :
        /\ pc[r] = "selected"  => pc'[r] \in {"selected", "acquiring", "roundtrip"}
        /\ pc[r] = "acquiring" => pc'[r] \in {"acquiring", "roundtrip"}
        /\ pc[r] = "roundtrip" => pc'[r] \in {"roundtrip", "copying", "served"}
        /\ pc[r] = "copying"   => pc'[r] \in {"copying", "served", "panicked"}
        /\ pc[r] = "served"    => pc'[r] \in {"served", "done"}
        /\ pc[r] \in {"done", "panicked"} => pc'[r] = pc[r]
        /\ outcome[r] # "none" =>
              /\ outcome'[r] = outcome[r]
              /\ pc'[r] \in {"served", "done", "panicked"}
C14_ProxyLifecycle ==
    /\ []((ProxyMode /\ Cap > 0) =>
            \A i \in Backends :
                connLimiters[i + 1].cur =
                    Cardinality({r \in Requests : HoldsPermit(r, i)}))
    /\ [][(ProxyMode /\ Cap > 0) => C14_Order]_vars

\* a request that had to wait is forwarding after an earlier one completed
C14_Witness ==
    /\ ProxyMode
    /\ Cap > 0
    /\ \E r \in Requests :
          /\ Forwarding(r)
          /\ ready[r]
          /\ \E q \in Requests :
                pc[q] = "done" /\ outcome[q] = "completed" /\ proxyIdx[q] = proxyIdx[r]


\* ---------------------------------------------------------------- C15
\* C15: a request blocked in Acquire on backend i has all of i's permits
\* taken before it; it stays blocked, unanswered and unfailed, whether or
\* not its client is gone, until a Release by a request of the same backend
\* hands it a permit, and only then goes on to its forward; a request is
\* blocked only when its own backend's limiter has no free permit or has
\* waiters, whatever the state of the other backends.
Limiter(r) == connLimiters[proxyIdx[r] + 1]
Waiting(r) == pc[r] = "acquiring" /\ ~ready[r]
InWaiters(r) == \E k \in 1 .. Len(Limiter(r).waiters) : Limiter(r).waiters[k] = r
C15_Step ==
    \A w \in Requests :
        /\ pc[w] = "acquiring" =>
              /\ pc'[w] \in {"acquiring", "roundtrip"}
              /\ pc'[w] = "roundtrip" => ready[w]
              /\ outcome'[w] = "none" /\ written'[w] = 0 /\ status'[w] = 0
        /\ (~ready[w] /\ ready'[w]) =>
              /\ pc[w] = "acquiring"
              /\ \E r \in Requests \ {w} :
                    /\ pc[r] = "served" /\ pc'[r] = "done"
                    /\ proxyIdx[r] = proxyIdx[w]
        /\ (pc[w] = "selected" /\ pc'[w] = "acquiring") => ~CanAcquire(Limiter(w))
        /\ (pc[w] = "selected" /\ pc'[w] # "selected" /\ CanAcquire(Limiter(w)))
              => pc'[w] = "roundtrip"
C15_WaitsForOwnBackendOnly ==
    /\ []((ProxyMode /\ Cap > 0) =>
            \A w \in Requests :
                /\ Waiting(w) =>
                      /\ Limiter(w).cur = Limiter(w).size
                      /\ InWaiters(w)
                /\ pc[w] = "selected" => ENABLED ProxyAcquire(w))
    /\ [][(ProxyMode /\ Cap > 0) => C15_Step]_vars

\* a request whose client is gone still waits for its saturated backend
\* while a request of another backend is forwarding
C15_Witness ==
    /\ ProxyMode
    /\ Cap > 0
    /\ \E w \in Requests :
          /\ Waiting(w)
          /\ clientGone[w]
          /\ \E r \in Requests : Forwarding(r) /\ proxyIdx[r] # proxyIdx[w]

\* ---------------------------------------------------------------- C16
\* C16: with a cap C > 0, fair scheduling and forwards that all conclude,
\* every request blocked in Acquire is eventually admitted to its forward
\* and eventually ends.
C16_WaiterEventuallyAdmitted ==
    \A r \in Requests :
        /\ (ProxyMode /\ Cap > 0 /\ pc[r] = "acquiring") ~> Forwarding(r)
        /\ (ProxyMode /\ Cap > 0 /\ pc[r] = "acquiring")
              ~> (pc[r] \in {"done", "panicked"})

\* ---------------------------------------------------------------- C17
\* C17: with the limit on, a limiter's count of held permits goes down only
\* in the Release of a request that holds a permit of that backend and has
\* not given it back; so for every backend the held permits are never
\* negative (the available ones never exceed the cap) and cover every
\* request that is about to release.
AboutToRelease(i) == {r \in Requests : pc[r] = "served" /\ proxyIdx[r] = i}
C17_ReleaseStep ==
    \A i \in Backends :
        connLimiters'[i + 1].cur < connLimiters[i + 1].cur + Len(connLimiters[i + 1].waiters)
                                   - Len(connLimiters'[i + 1].waiters)
            => \E r \in Requests :
                  /\ HoldsPermit(r, i)
                  /\ pc[r] = "served" /\ pc'[r] = "done"
                  /\ \A q \in Requests \ {r} : pc[q] = "served" => pc'[q] = "served"
C17_ReleaseOnlyAfterAcquire ==
    /\ []((ProxyMode /\ LimitEnabled) =>
            \A i \in Backends :
                /\ connLimiters[i + 1].size = Cap
                /\ connLimiters[i + 1].cur >= 0
                /\ connLimiters[i + 1].size - connLimiters[i + 1].cur <= Cap
                /\ connLimiters[i + 1].cur >= Cardinality(AboutToRelease(i)))
    /\ [][(ProxyMode /\ LimitEnabled) => C17_ReleaseStep]_vars

\* a request has given its permit back and no permit of its backend is held
C17_Witness ==
    /\ ProxyMode
    /\ LimitEnabled
    /\ \E r \in Requests :
          /\ pc[r] = "done"
          /\ connLimiters[proxyIdx[r] + 1].cur = 0
          /\ connLimiters[proxyIdx[r] + 1].waiters = <<>>


\* ---------------------------------------------------------------- C18
\* C18: once initialised, the list of backends, the list of their base
\* URIs and, with the limit on, the list of limiters have the same length
\* N >= 1 and entry k of each belongs to the same backend; none of them
\* changes while serving; and the index a handler computes from its ticket
\* is in 0 .. N-1 for every value of the counter, the wrapped ones included.
Initialised == mainPc \in {"register", "serving"}
WrapTickets == StartTickets \cup {Zero32, Max32, Inc32(Zero32)}
C18_Lists ==
    /\ N >= 1
    /\ Len(config.proxyStrings) = N
    /\ \A k \in 1 .. N : proxies[k] = config.proxyStrings[k]
    /\ Len(connLimiters) = IF LimitEnabled THEN N ELSE 0
    /\ \A k \in 1 .. Len(connLimiters) : connLimiters[k].size = Cap
C18_Indices ==
    /\ \A v \in WrapTickets : Mod32(v, N) \in Backends
    /\ \A r \in Requests :
          /\ pc[r] \in {"ticketed", "rticketed"} => Mod32(ticket[r], N) \in Backends
          /\ Selected(r) => /\ proxyIdx[r] \in Backends
                            /\ proxyIdx[r] = Mod32(ticket[r], N)
C18_ListsFixed ==
    /\ proxies' = proxies
    /\ config' = config
    /\ Len(connLimiters') = Len(connLimiters)
C18_IndexInRange ==
    /\ [](Initialised => (C18_Lists /\ C18_Indices))
    /\ [][mainPc = "serving" => C18_ListsFixed]_vars

\* two requests have their backends, one under the largest ticket and one
\* under the ticket the counter wraps to
C18_Witness ==
    /\ mainPc = "serving"
    /\ LimitEnabled
    /\ N >= 2
    /\ \E r, q \in Requests :
          /\ Selected(r) /\ ticket[r] = Max32
          /\ Selected(q) /\ ticket[q] = Zero32

====
